---- MODULE Spec2Model ----
(***************************************************************************)
(* Raw item extraction (crates/ra_hir/src/nameres/raw.rs).                 *)
(*                                                                         *)
(* The collector walks the syntax tree of one source file depth first and  *)
(* builds RawItems (four arenas plus ordered item lists) together with an  *)
(* ImportSourceMap.  The recursion of process_module / add_module is kept  *)
(* as an explicit call stack; every other handler is one atomic step.      *)
(***************************************************************************)
EXTENDS Integers, Sequences, FiniteSets, TLC

VARIABLES
    source_file,   \* the parsed tree handed to the query (db.hir_parse)
    pc,            \* "idle" | "running" | "done" | "panicked"
    stack,         \* call stack of process_module invocations
    raw_items,     \* RawItemsCollector.raw_items
    source_map,    \* RawItemsCollector.source_map
    results        \* the values the queries have returned so far

vars == <<source_file, pc, stack, raw_items, source_map, results>>

(* ------------------------------ bounds --------------------------------- *)
MaxWeight == 3      \* number of syntax nodes of the input file

(* ------------------------------ Option --------------------------------- *)
None == <<>>
Some(x) == <<x>>
IsSome(o) == o /= <<>>
Unwrap(o) == o[1]

(* --------------------------- the syntax tree --------------------------- *)
Idents == {"a", "b"}

DefNodeKinds ==
    {"StructDef", "EnumDef", "FnDef", "TraitDef", "TypeAliasDef", "ConstDef", "StaticDef"}

\* one leaf of a use tree: `seg`, `seg as alias`, or `seg::*`
UseLeaf(seg, star, alias) == [segment |-> seg, has_star |-> star, alias |-> alias]

DefNode(kind, name) == [kind |-> kind, name |-> name]
ImplNode == [kind |-> "ImplBlock"]
UseNode(prelude, leaves) ==
    [kind |-> "UseItem", prelude_import |-> prelude, use_tree |-> leaves]
ExternCrateNode(name_ref, alias) ==
    [kind |-> "ExternCrateItem", name_ref |-> name_ref, alias |-> alias]
MacroNode(path, name, export) ==
    [kind |-> "MacroCall", path |-> path, name |-> name, macro_export |-> export]
ModuleNode(name, semi, item_list) ==
    [kind |-> "Module", name |-> name, has_semi |-> semi, item_list |-> item_list]

\* use trees with exactly n syntax nodes (a leaf is one node, its alias another)
UseTrees[n \in 0..MaxWeight] ==
    IF n = 0 THEN {<<>>}
    ELSE {<<UseLeaf(s, st, None)>> \o r :
              s \in Idents, st \in BOOLEAN, r \in UseTrees[n - 1]}
         \cup (IF n >= 2
               THEN {<<UseLeaf("a", FALSE, Some("b"))>> \o r : r \in UseTrees[n - 2]}
               ELSE {})

\* The common well-formed constructs weigh one node; the malformed and the
\* rarer forms weigh two, so that a file of MaxWeight nodes holds fewer of them.
Atoms ==
    {DefNode("FnDef", Some("a")),
     ExternCrateNode(Some("a"), None),
     MacroNode(Some("a"), None, FALSE),
     ModuleNode(Some("a"), TRUE, None)}
Decorated ==
    {DefNode("FnDef", None), DefNode("StructDef", Some("b")),
     ImplNode,
     ExternCrateNode(None, None), ExternCrateNode(Some("a"), Some("b")),
     MacroNode(None, None, FALSE),
     MacroNode(Some("a"), Some("b"), FALSE), MacroNode(Some("a"), None, TRUE),
     ModuleNode(Some("a"), FALSE, None)}

\* module constructs with an item list of n nodes: well formed, terminated
\* as well (`mod a; { .. }`), and without a name (one node more)
ModulesWithBody(n, bodies) ==
    {ModuleNode(Some("a"), semi, Some(b)) : semi \in BOOLEAN, b \in bodies[n - 1]}
    \cup (IF n >= 2
          THEN {ModuleNode(None, FALSE, Some(b)) : b \in bodies[n - 2]}
          ELSE {})

\* the constructs with exactly n syntax nodes that are not modules with an
\* item list
Leaves(n) ==
    (IF n = 1 THEN Atoms ELSE {})
    \cup (IF n = 2 THEN Decorated ELSE {})
    \cup {UseNode(FALSE, t) : t \in UseTrees[n - 1]}
    \cup (IF n >= 2 THEN {UseNode(TRUE, t) : t \in UseTrees[n - 2]} ELSE {})

\* the module bodies (sequences of constructs) with exactly n syntax nodes
Bodies[n \in 0..MaxWeight] ==
    IF n = 0 THEN {<<>>}
    ELSE UNION {{<<c>> \o r :
                    c \in Leaves(k)
                          \cup ModulesWithBody(k, Bodies),
                    r \in Bodies[n - k]} : k \in 1..n}

SourceFiles == UNION {Bodies[n] : n \in 0..MaxWeight}

(* ------------------------ positions in the tree ------------------------ *)
\* A construct is addressed by the child indices leading to it from the file
\* root; the root itself (SourceFile) is the empty path.
RECURSIVE NodeAt(_, _)
NodeAt(body, path) ==
    IF Len(path) = 1 THEN body[path[1]]
    ELSE NodeAt(Unwrap(body[path[1]].item_list), Tail(path))

\* ast::ModuleItemOwner::items_with_macros of the file root or of a module's
\* item list: declarations and macro calls interleaved in source order
ItemsWithMacros(file, owner) ==
    IF owner = <<>> THEN file ELSE Unwrap(NodeAt(file, owner).item_list)

\* all item and macro-call nodes below a body, in document order
RECURSIVE ItemNodesFrom(_, _, _)
ItemNodesFrom(body, prefix, i) ==
    IF i > Len(body) THEN <<>>
    ELSE <<prefix \o <<i>>>>
         \o (IF body[i].kind = "Module" /\ IsSome(body[i].item_list)
             THEN ItemNodesFrom(Unwrap(body[i].item_list), prefix \o <<i>>, 1)
             ELSE <<>>)
         \o ItemNodesFrom(body, prefix, i + 1)

\* db.file_items(file_id): the stable item index of the file
SourceFileItems(file) == ItemNodesFrom(file, <<>>, 1)

\* SourceFileItems::ast_id / id_of_unchecked: the index of the node in the table
AstId(file, path) ==
    LET items == SourceFileItems(file)
    IN (CHOOSE i \in 1..Len(items) : items[i] = path) - 1

\* the ast::PathSegment node of leaf `leaf` of the use item at `item_path`
PathSegment(file, item_path, leaf) ==
    [kind |-> "PATH_SEGMENT",
     range |-> <<item_path, leaf>>,
     text |-> NodeAt(file, item_path).use_tree[leaf].segment]

\* AstPtr::new(segment): the kind and text range of the node, not the node
AstPtrNew(segment) == [kind |-> segment.kind, range |-> segment.range]

\* AstPtr::to_node(file): the node of that kind at that range in `file`
ToNode(file, ptr) == PathSegment(file, ptr.range[1], ptr.range[2])

(* ------------------------- names and paths ----------------------------- *)
AsName(ident) == [name |-> ident]
OptAsName(o) == IF IsSome(o) THEN Some(AsName(Unwrap(o))) ELSE None

\* Path::from_name_ref and Path::from_ast on a single-segment path
PathFromNameRef(ident) == [kind |-> "Plain", segments |-> <<AsName(ident)>>]
PathFromAst(o) == IF IsSome(o) THEN Some(PathFromNameRef(Unwrap(o))) ELSE None

\* Path::expand_use_item: one callback invocation per leaf of the use tree,
\* in source order, with (path, segment or none for a glob, alias)
ExpandUseItem(file, item_path) ==
    [i \in 1..Len(NodeAt(file, item_path).use_tree) |->
        LET leaf == NodeAt(file, item_path).use_tree[i] IN
        [path |-> PathFromNameRef(leaf.segment),
         segment |-> IF leaf.has_star THEN None
                     ELSE Some(PathSegment(file, item_path, i)),
         alias |-> OptAsName(leaf.alias)]]

(* ------------------------------- arenas -------------------------------- *)
\* Arena<ID, T>: ids are the raw indices handed out by alloc
EmptyArena == [i \in {} |-> None]
ArenaLen(arena) == Cardinality(DOMAIN arena)
Alloc(arena, data) ==
    [id |-> ArenaLen(arena),
     arena |-> [i \in DOMAIN arena \cup {ArenaLen(arena)} |->
                   IF i \in DOMAIN arena THEN arena[i] ELSE data]]

\* ArenaMap::insert
ArenaMapInsert(map, id, v) ==
    [i \in DOMAIN map \cup {id} |-> IF i = id THEN v ELSE map[i]]

\* ImportSourceMap::insert
ImportSourceMapInsert(sm, import, segment) == ArenaMapInsert(sm, import, AstPtrNew(segment))

\* RawItems::default() and ImportSourceMap::default()
RawItemsDefault ==
    [modules |-> EmptyArena, imports |-> EmptyArena, defs |-> EmptyArena,
     macros |-> EmptyArena, items |-> <<>>]
ImportSourceMapDefault == EmptyArena

RawItem(tag, id) == [tag |-> tag, id |-> id]

DefKind(node_kind) ==
    CASE node_kind = "StructDef" -> "Struct"
      [] node_kind = "EnumDef" -> "Enum"
      [] node_kind = "FnDef" -> "Function"
      [] node_kind = "TraitDef" -> "Trait"
      [] node_kind = "TypeAliasDef" -> "TypeAlias"
      [] node_kind = "ConstDef" -> "Const"
      [] node_kind = "StaticDef" -> "Static"

(* ------------------------------ push_item ------------------------------ *)
\* push_item reaches unreachable!() when the parent is a Declaration
PushItemPanics(ri, current_module) ==
    /\ IsSome(current_module)
    /\ ri.modules[Unwrap(current_module)].variant = "Declaration"

\* variant: the item is put in front of the list
PushItem_Prepend(ri, current_module, item) ==
    IF IsSome(current_module)
    THEN IF ri.modules[Unwrap(current_module)].variant = "Definition"
         THEN [ri EXCEPT !.modules[Unwrap(current_module)].items = <<item>> \o @]
         ELSE ri
    ELSE [ri EXCEPT !.items = <<item>> \o @]

PushItem(ri, current_module, item) ==
    IF IsSome(current_module)
    THEN IF ri.modules[Unwrap(current_module)].variant = "Definition"
         THEN [ri EXCEPT !.modules[Unwrap(current_module)].items = Append(@, item)]
         ELSE ri
    ELSE [ri EXCEPT !.items = Append(@, item)]

(* ----------------------- the collector's position ---------------------- *)
Frame(current_module, body, next) ==
    [current_module |-> current_module, body |-> body, next |-> next]

Top == stack[Len(stack)]
TopItems == ItemsWithMacros(source_file, Top.body)
Running == pc = "running" /\ stack /= <<>>
HasCurrent == Running /\ Top.next <= Len(TopItems)
Current == TopItems[Top.next]
CurrentPath == Top.body \o <<Top.next>>
Advance == [stack EXCEPT ![Len(stack)].next = @ + 1]

\* the state after a handler that pushed into `current_module` returned
Continue(ri, sm, panics) ==
    /\ raw_items' = ri
    /\ source_map' = sm
    /\ pc' = IF panics THEN "panicked" ELSE pc
    /\ stack' = IF panics THEN stack ELSE Advance
    /\ UNCHANGED <<source_file, results>>

Skip == Continue(raw_items, source_map, FALSE)

(* ------------------------------- queries ------------------------------- *)
Init ==
    /\ source_file \in SourceFiles
    /\ pc = "idle"
    /\ stack = <<>>
    /\ raw_items = RawItemsDefault
    /\ source_map = ImportSourceMapDefault
    /\ results = {}

\* variant: the collector goes on from the RawItems of the run before
RawItemsWithSourceMapQuery_Stale ==
    /\ pc \in {"idle", "done"}
    /\ pc' = "running"
    /\ raw_items' = raw_items
    /\ source_map' = ImportSourceMapDefault
    /\ stack' = <<Frame(None, <<>>, 1)>>
    /\ UNCHANGED <<source_file, results>>

\* raw_items_with_source_map_query up to the call of process_module(None, file);
\* the query may be evaluated again once it has returned
RawItemsWithSourceMapQuery ==
    /\ pc \in {"idle", "done"}
    /\ pc' = "running"
    /\ raw_items' = RawItemsDefault
    /\ source_map' = ImportSourceMapDefault
    /\ stack' = <<Frame(None, <<>>, 1)>>
    /\ UNCHANGED <<source_file, results>>

\* process_module(None, file) is back: the query returns the pair
QueryReturn ==
    /\ Running /\ ~HasCurrent /\ Len(stack) = 1
    /\ pc' = "done"
    /\ stack' = <<>>
    /\ results' = results \cup {[query |-> "raw_items_with_source_map",
                                 value |-> <<raw_items, source_map>>]}
    /\ UNCHANGED <<source_file, raw_items, source_map>>

\* component .0 of the pair
Component0(pair) == pair[1]

\* raw_items_query, once the query it calls has returned the pair
RawItemsQuery ==
    /\ pc = "done"
    /\ results' = results \cup {[query |-> "raw_items",
                                 value |-> Component0(<<raw_items, source_map>>)]}
    /\ UNCHANGED <<source_file, pc, stack, raw_items, source_map>>

(* ------------------------------- add_item ------------------------------ *)
\* the arms of add_item that do not delegate: impl blocks and definitions
AddItem ==
    /\ HasCurrent
    /\ Current.kind \in DefNodeKinds \cup {"ImplBlock"}
    /\ IF Current.kind = "ImplBlock"
       THEN Skip
       ELSE IF IsSome(Current.name)
            THEN LET data == [name |-> AsName(Unwrap(Current.name)),
                              kind |-> DefKind(Current.kind),
                              source_item_id |-> AstId(source_file, CurrentPath)]
                     a == Alloc(raw_items.defs, data)
                     ri == [raw_items EXCEPT !.defs = a.arena]
                 IN Continue(PushItem(ri, Top.current_module, RawItem("Def", a.id)),
                             source_map,
                             PushItemPanics(ri, Top.current_module))
            ELSE Skip

(* ------------------------------ add_module ----------------------------- *)
\* variant: the terminated module is recorded as a Definition without items
AddModuleDeclaration_AsDefinition(name, ast_id) ==
    LET a == Alloc(raw_items.modules,
                   [variant |-> "Definition", name |-> name, ast_id |-> ast_id,
                    items |-> <<>>])
        ri == [raw_items EXCEPT !.modules = a.arena]
    IN Continue(PushItem(ri, Top.current_module, RawItem("Module", a.id)),
                source_map,
                PushItemPanics(ri, Top.current_module))

\* variant: a terminated module that has an item list as well is traversed
\* with the Declaration as current_module
AddModuleDeclaration_Recurses(name, ast_id) ==
    LET a == Alloc(raw_items.modules,
                   [variant |-> "Declaration", name |-> name, ast_id |-> ast_id])
        ri == [raw_items EXCEPT !.modules = a.arena]
    IN IF IsSome(Current.item_list)
       THEN /\ raw_items' = ri
            /\ stack' = Append(stack, Frame(Some(a.id), CurrentPath, 1))
            /\ UNCHANGED <<source_file, pc, source_map, results>>
       ELSE Continue(PushItem(ri, Top.current_module, RawItem("Module", a.id)),
                     source_map,
                     PushItemPanics(ri, Top.current_module))

\* `mod name;`: a Declaration is allocated and pushed, add_module returns
AddModuleDeclaration(name, ast_id) ==
    LET a == Alloc(raw_items.modules,
                   [variant |-> "Declaration", name |-> name, ast_id |-> ast_id])
        ri == [raw_items EXCEPT !.modules = a.arena]
    IN Continue(PushItem(ri, Top.current_module, RawItem("Module", a.id)),
                source_map,
                PushItemPanics(ri, Top.current_module))

\* `mod name { .. }`: a Definition is allocated and process_module is called
\* on the item list with the new module as current_module
AddModuleDefinition(name, ast_id) ==
    LET a == Alloc(raw_items.modules,
                   [variant |-> "Definition", name |-> name, ast_id |-> ast_id,
                    items |-> <<>>])
    IN /\ raw_items' = [raw_items EXCEPT !.modules = a.arena]
       /\ stack' = Append(stack, Frame(Some(a.id), CurrentPath, 1))
       /\ UNCHANGED <<source_file, pc, source_map, results>>

AddModule ==
    /\ HasCurrent
    /\ Current.kind = "Module"
    /\ IF ~IsSome(Current.name)
       THEN Skip
       ELSE LET name == AsName(Unwrap(Current.name))
                ast_id == AstId(source_file, CurrentPath)
            IN IF Current.has_semi
               THEN AddModuleDeclaration(name, ast_id)
               ELSE IF IsSome(Current.item_list)
                    THEN AddModuleDefinition(name, ast_id)
                    ELSE Skip

\* variant: the module is pushed into the top-level list, whatever its parent
AddModuleReturn_ToTopLevel ==
    /\ Running /\ ~HasCurrent /\ Len(stack) > 1
    /\ LET item == Unwrap(Top.current_module)
       IN /\ raw_items' = PushItem(raw_items, None, RawItem("Module", item))
          /\ stack' = [SubSeq(stack, 1, Len(stack) - 1)
                           EXCEPT ![Len(stack) - 1].next = @ + 1]
          /\ UNCHANGED <<source_file, pc, source_map, results>>

\* process_module(Some(item), item_list) is back in add_module: push the
\* module into its parent and go on with the parent's next construct
AddModuleReturn ==
    /\ Running /\ ~HasCurrent /\ Len(stack) > 1
    /\ LET item == Unwrap(Top.current_module)
           caller == stack[Len(stack) - 1]
           panics == PushItemPanics(raw_items, caller.current_module)
       IN /\ raw_items' = PushItem(raw_items, caller.current_module, RawItem("Module", item))
          /\ pc' = IF panics THEN "panicked" ELSE pc
          /\ stack' = IF panics THEN stack
                      ELSE [SubSeq(stack, 1, Len(stack) - 1)
                                EXCEPT ![Len(stack) - 1].next = @ + 1]
          /\ UNCHANGED <<source_file, source_map, results>>

(* ----------------------------- add_use_item ---------------------------- *)
\* variant: is_glob is taken from the presence of the segment, not its absence
UseItemCallback_GlobInverted(acc, cb, current_module, is_prelude) ==
    LET a == Alloc(acc.raw_items.imports,
                   [path |-> cb.path, alias |-> cb.alias,
                    is_glob |-> IsSome(cb.segment),
                    is_prelude |-> is_prelude,
                    is_extern_crate |-> FALSE])
        ri == [acc.raw_items EXCEPT !.imports = a.arena]
        sm == IF IsSome(cb.segment)
              THEN ImportSourceMapInsert(acc.source_map, a.id, Unwrap(cb.segment))
              ELSE acc.source_map
    IN [raw_items |-> PushItem(ri, current_module, RawItem("Import", a.id)),
        source_map |-> sm,
        panics |-> PushItemPanics(ri, current_module)]

\* one invocation of the closure passed to expand_use_item
UseItemCallback(acc, cb, current_module, is_prelude) ==
    LET a == Alloc(acc.raw_items.imports,
                   [path |-> cb.path, alias |-> cb.alias,
                    is_glob |-> ~IsSome(cb.segment),
                    is_prelude |-> is_prelude,
                    is_extern_crate |-> FALSE])
        ri == [acc.raw_items EXCEPT !.imports = a.arena]
        sm == IF IsSome(cb.segment)
              THEN ImportSourceMapInsert(acc.source_map, a.id, Unwrap(cb.segment))
              ELSE acc.source_map
    IN [raw_items |-> PushItem(ri, current_module, RawItem("Import", a.id)),
        source_map |-> sm,
        panics |-> PushItemPanics(ri, current_module)]

\* the closure applied to callbacks i, i+1, .. of the expansion, in order
RECURSIVE UseItemCallbacks(_, _, _, _, _)
UseItemCallbacks(acc, expansion, i, current_module, is_prelude) ==
    IF i > Len(expansion) \/ acc.panics THEN acc
    ELSE UseItemCallbacks(UseItemCallback(acc, expansion[i], current_module, is_prelude),
                          expansion, i + 1, current_module, is_prelude)

AddUseItem ==
    /\ HasCurrent
    /\ Current.kind = "UseItem"
    /\ LET is_prelude == Current.prelude_import
           r == UseItemCallbacks(
                    [raw_items |-> raw_items, source_map |-> source_map, panics |-> FALSE],
                    ExpandUseItem(source_file, CurrentPath), 1, Top.current_module,
                    is_prelude)
       IN Continue(r.raw_items, r.source_map, r.panics)

(* ------------------------ add_extern_crate_item ------------------------ *)
\* variant: the row is allocated but never pushed
AddExternCrateItem_NoPush ==
    /\ HasCurrent
    /\ Current.kind = "ExternCrateItem"
    /\ IF IsSome(Current.name_ref)
       THEN LET a == Alloc(raw_items.imports,
                           [path |-> PathFromNameRef(Unwrap(Current.name_ref)),
                            alias |-> OptAsName(Current.alias),
                            is_glob |-> FALSE,
                            is_prelude |-> FALSE,
                            is_extern_crate |-> TRUE])
            IN Continue([raw_items EXCEPT !.imports = a.arena], source_map, FALSE)
       ELSE Skip

AddExternCrateItem ==
    /\ HasCurrent
    /\ Current.kind = "ExternCrateItem"
    /\ IF IsSome(Current.name_ref)
       THEN LET a == Alloc(raw_items.imports,
                           [path |-> PathFromNameRef(Unwrap(Current.name_ref)),
                            alias |-> OptAsName(Current.alias),
                            is_glob |-> FALSE,
                            is_prelude |-> FALSE,
                            is_extern_crate |-> TRUE])
                ri == [raw_items EXCEPT !.imports = a.arena]
            IN Continue(PushItem(ri, Top.current_module, RawItem("Import", a.id)),
                        source_map,
                        PushItemPanics(ri, Top.current_module))
       ELSE Skip

(* ------------------------------ add_macro ------------------------------ *)
\* variant: a macro call without a callee path is recorded with an empty path
AddMacro_KeepsPathless ==
    /\ HasCurrent
    /\ Current.kind = "MacroCall"
    /\ LET a == Alloc(raw_items.macros,
                      [ast_id |-> AstId(source_file, CurrentPath),
                       path |-> IF IsSome(PathFromAst(Current.path))
                                THEN Unwrap(PathFromAst(Current.path))
                                ELSE [kind |-> "Plain", segments |-> <<>>],
                       name |-> OptAsName(Current.name),
                       export |-> Current.macro_export])
           ri == [raw_items EXCEPT !.macros = a.arena]
       IN Continue(PushItem(ri, Top.current_module, RawItem("Macro", a.id)),
                   source_map,
                   PushItemPanics(ri, Top.current_module))

AddMacro ==
    /\ HasCurrent
    /\ Current.kind = "MacroCall"
    /\ IF IsSome(PathFromAst(Current.path))
       THEN LET a == Alloc(raw_items.macros,
                           [ast_id |-> AstId(source_file, CurrentPath),
                            path |-> Unwrap(PathFromAst(Current.path)),
                            name |-> OptAsName(Current.name),
                            export |-> Current.macro_export])
                ri == [raw_items EXCEPT !.macros = a.arena]
            IN Continue(PushItem(ri, Top.current_module, RawItem("Macro", a.id)),
                        source_map,
                        PushItemPanics(ri, Top.current_module))
       ELSE Skip

Next ==
    \/ RawItemsWithSourceMapQuery
    \/ RawItemsQuery
    \/ AddMacro
    \/ AddItem
    \/ AddModule
    \/ AddModuleReturn
    \/ AddUseItem
    \/ AddExternCrateItem
    \/ QueryReturn

Spec == Init /\ [][Next]_vars

(* ------------------------- ImportSourceMap::get ------------------------ *)
\* the logical module sources of a file: the file itself and every module
\* with an item list in it
ModuleSources(file) ==
    {[kind |-> "SourceFile", path |-> <<>>]}
    \cup LET items == SourceFileItems(file)
         IN {[kind |-> "Module", path |-> items[i]] :
                 i \in {j \in 1..Len(items) :
                           LET n == NodeAt(file, items[j])
                           IN n.kind = "Module" /\ IsSome(n.item_list)}}

\* m.syntax().ancestors(): the node, its parent, .. up to the root
Ancestors(path) == [i \in 1..(Len(path) + 1) |-> SubSeq(path, 1, Len(path) + 1 - i)]

\* the `file` get resolves pointers against: the file itself, or the first
\* ancestor of the module that casts to SourceFile (the root, path <<>>)
SourceFileOf(file, source) ==
    IF source.kind = "SourceFile" THEN file
    ELSE LET anc == Ancestors(source.path)
             i == CHOOSE i \in 1..Len(anc) :
                      anc[i] = <<>> /\ \A j \in 1..(i - 1) : anc[j] /= <<>>
         IN IF anc[i] = <<>> THEN file ELSE <<>>

\* ImportSourceMap::get; None stands for the panic of indexing the ArenaMap
\* at an id it holds no value for
ImportSourceMapGet(sm, file, source, import) ==
    IF import \in DOMAIN sm
    THEN Some(ToNode(SourceFileOf(file, source), sm[import]))
    ELSE None

(***************************************************************************)
(*                          Properties of a run                            *)
(***************************************************************************)
Done == pc = "done"

\* the constructs process_module visits: every enclosing module construct is
\* named, not terminated by `;` and has an item list
InlineModule(node) ==
    node.kind = "Module" /\ IsSome(node.name) /\ ~node.has_semi /\ IsSome(node.item_list)
Visited(path) ==
    \A k \in 1..(Len(path) - 1) : InlineModule(NodeAt(source_file, SubSeq(path, 1, k)))
AllPaths ==
    LET items == SourceFileItems(source_file) IN {items[i] : i \in 1..Len(items)}
VisitedPaths == {p \in AllPaths : Visited(p)}

\* the import rows a run owes, in document order: one per leaf of a visited
\* use item, one per visited extern crate item that names a crate
ImportOriginsOf(node, path) ==
    IF node.kind = "UseItem"
    THEN [j \in 1..Len(node.use_tree) |->
             [item |-> path, leaf |-> j, glob |-> node.use_tree[j].has_star,
              extern_crate |-> FALSE, text |-> node.use_tree[j].segment]]
    ELSE IF node.kind = "ExternCrateItem" /\ IsSome(node.name_ref)
         THEN <<[item |-> path, leaf |-> 0, glob |-> FALSE,
                 extern_crate |-> TRUE, text |-> Unwrap(node.name_ref)]>>
         ELSE <<>>

RECURSIVE ImportOriginsFrom(_, _)
ImportOriginsFrom(paths, i) ==
    IF i > Len(paths) THEN <<>>
    ELSE (IF Visited(paths[i])
          THEN ImportOriginsOf(NodeAt(source_file, paths[i]), paths[i])
          ELSE <<>>)
         \o ImportOriginsFrom(paths, i + 1)
ImportOrigins == ImportOriginsFrom(SourceFileItems(source_file), 1)

\* the item list a parent owns
ItemsOf(ri, parent) ==
    IF IsSome(parent) THEN ri.modules[Unwrap(parent)].items ELSE ri.items

DefinitionIds(ri) == {m \in DOMAIN ri.modules : ri.modules[m].variant = "Definition"}

(* C1: in the result of a run every Import row with is_glob = false has a   *)
(* source-map entry (a map holds at most one per id) and every row with     *)
(* is_glob = true has none, whichever construct created the row.            *)
C1_NonGlobImportsHaveSourceMapEntry ==
    Done =>
        \A id \in DOMAIN raw_items.imports :
            (~raw_items.imports[id].is_glob) <=> (id \in DOMAIN source_map)

(* C7: for every Import row with is_glob = false, ImportSourceMap::get      *)
(* succeeds for every module source of the file and returns the path        *)
(* segment of the leaf the row was created from (same position and text).   *)
C7_GetReturnsOriginatingSegment ==
    Done =>
        \A id \in DOMAIN raw_items.imports :
            ~raw_items.imports[id].is_glob =>
                \A src \in ModuleSources(source_file) :
                    LET got == ImportSourceMapGet(source_map, source_file, src, id)
                        origin == ImportOrigins[id + 1]
                    IN /\ IsSome(got)
                       /\ ~origin.extern_crate =>
                              /\ Unwrap(got).range = <<origin.item, origin.leaf>>
                              /\ Unwrap(got).text = origin.text

(* C10: push_item never sees a Declaration parent: no run panics, also on   *)
(* malformed trees such as a module with both `;` and an item list.         *)
C10_PushItemNeverUnreachable == pc /= "panicked"

\* a finished run over a file holding `mod a; { <non-empty> }` in a visited place
C10_Witness ==
    /\ Done
    /\ \E p \in VisitedPaths :
           LET n == NodeAt(source_file, p)
           IN /\ n.kind = "Module" /\ IsSome(n.name) /\ n.has_semi
              /\ IsSome(n.item_list) /\ Unwrap(n.item_list) /= <<>>
              /\ \E m \in DOMAIN raw_items.modules :
                     /\ raw_items.modules[m].variant = "Declaration"
                     /\ raw_items.modules[m].ast_id = AstId(source_file, p)

(* ------------------------------- order --------------------------------- *)
\* what identifies an entry's construct: the stable id of a definition, macro
\* call or module; the text and flags of an import (an import row keeps no id)
Sig(tag, ast_id, text, glob, extern_crate) ==
    [tag |-> tag, ast_id |-> ast_id, text |-> text, glob |-> glob,
     extern_crate |-> extern_crate]

\* the entries a construct owes its parent's item list, in order
ExpectedSigsOf(node, path) ==
    IF node.kind \in DefNodeKinds
    THEN IF IsSome(node.name)
         THEN <<Sig("Def", AstId(source_file, path), "", FALSE, FALSE)>> ELSE <<>>
    ELSE IF node.kind = "MacroCall"
    THEN IF IsSome(node.path)
         THEN <<Sig("Macro", AstId(source_file, path), "", FALSE, FALSE)>> ELSE <<>>
    ELSE IF node.kind = "Module"
    THEN IF IsSome(node.name) /\ (node.has_semi \/ IsSome(node.item_list))
         THEN <<Sig("Module", AstId(source_file, path), "", FALSE, FALSE)>> ELSE <<>>
    ELSE IF node.kind \in {"UseItem", "ExternCrateItem"}
    THEN [j \in 1..Len(ImportOriginsOf(node, path)) |->
             LET o == ImportOriginsOf(node, path)[j]
             IN Sig("Import", -1, o.text, o.glob, o.extern_crate)]
    ELSE <<>>

RECURSIVE ExpectedSigs(_, _, _)
ExpectedSigs(body, prefix, i) ==
    IF i > Len(body) THEN <<>>
    ELSE ExpectedSigsOf(body[i], prefix \o <<i>>) \o ExpectedSigs(body, prefix, i + 1)

ActualSig(ri, item) ==
    CASE item.tag = "Def" ->
             Sig("Def", ri.defs[item.id].source_item_id, "", FALSE, FALSE)
      [] item.tag = "Macro" ->
             Sig("Macro", ri.macros[item.id].ast_id, "", FALSE, FALSE)
      [] item.tag = "Module" ->
             Sig("Module", ri.modules[item.id].ast_id, "", FALSE, FALSE)
      [] item.tag = "Import" ->
             Sig("Import", -1, ri.imports[item.id].path.segments[1].name,
                 ri.imports[item.id].is_glob, ri.imports[item.id].is_extern_crate)
ActualSigs(ri, items) == [k \in 1..Len(items) |-> ActualSig(ri, items[k])]

VisitedInlineModules == {p \in VisitedPaths : InlineModule(NodeAt(source_file, p))}
ModulesOf(ri, path) ==
    {m \in DOMAIN ri.modules : ri.modules[m].ast_id = AstId(source_file, path)}

(* C2: in the result of a run the file's item list and the item list of     *)
(* every visited inline module hold, in source order of the constructs of   *)
(* that body, exactly the entries those constructs contribute; a nested     *)
(* inline module's entry stands at the place of the module construct.       *)
C2_ItemListsFollowSourceOrder ==
    Done =>
        /\ ActualSigs(raw_items, raw_items.items) = ExpectedSigs(source_file, <<>>, 1)
        /\ \A p \in VisitedInlineModules :
               \E m \in ModulesOf(raw_items, p) :
                   /\ raw_items.modules[m].variant = "Definition"
                   /\ ActualSigs(raw_items, raw_items.modules[m].items)
                          = ExpectedSigs(Unwrap(NodeAt(source_file, p).item_list), p, 1)

\* a finished run whose top-level list holds a non-empty inline module
\* followed by the entry of a later construct
C2_Witness ==
    /\ Done
    /\ Len(raw_items.items) >= 2
    /\ raw_items.items[1].tag = "Module"
    /\ raw_items.modules[raw_items.items[1].id].variant = "Definition"
    /\ raw_items.modules[raw_items.items[1].id].items /= <<>>
    /\ raw_items.items[2].tag /= "Module"

(* --------------------------- import expansion -------------------------- *)
UseStep == HasCurrent /\ Current.kind = "UseItem"

(* C3: a use item with k explicit leaves and w globs adds exactly k + w     *)
(* Import rows, allocated and appended to the current parent's list in      *)
(* expansion order; a glob row has is_glob and no source-map entry, an      *)
(* explicit row has not is_glob and one entry that resolves to its own      *)
(* leaf; all rows have is_extern_crate = false and the item's is_prelude.   *)
C3_UseItemExpansion ==
    [][UseStep =>
        LET n == ArenaLen(raw_items.imports)
            tree == Current.use_tree
            k == Len(tree)
        IN /\ DOMAIN raw_items'.imports = DOMAIN raw_items.imports \cup (n..(n + k - 1))
           /\ \A id \in DOMAIN raw_items.imports :
                  raw_items'.imports[id] = raw_items.imports[id]
           /\ ItemsOf(raw_items', Top.current_module)
                  = ItemsOf(raw_items, Top.current_module)
                        \o [j \in 1..k |-> RawItem("Import", n + j - 1)]
           /\ DOMAIN source_map' \subseteq DOMAIN source_map \cup (n..(n + k - 1))
           /\ \A id \in DOMAIN source_map : source_map'[id] = source_map[id]
           /\ \A j \in 1..k :
                  LET id == n + j - 1
                      row == raw_items'.imports[id]
                  IN /\ row.is_glob = tree[j].has_star
                     /\ row.is_extern_crate = FALSE
                     /\ row.is_prelude = Current.prelude_import
                     /\ tree[j].has_star => id \notin DOMAIN source_map'
                     /\ ~tree[j].has_star =>
                            /\ id \in DOMAIN source_map'
                            /\ ToNode(source_file, source_map'[id]).range
                                   = <<CurrentPath, j>>
                            /\ ToNode(source_file, source_map'[id]).text = tree[j].segment
    ]_vars

\* a finished run over `use {b::*, a}` (a glob and an explicit leaf)
C3_Witness ==
    /\ Done
    /\ \E p \in VisitedPaths :
           LET n == NodeAt(source_file, p)
           IN /\ n.kind = "UseItem"
              /\ \E i, j \in 1..Len(n.use_tree) :
                     n.use_tree[i].has_star /\ ~n.use_tree[j].has_star
    /\ \E g, e \in DOMAIN raw_items.imports :
           /\ raw_items.imports[g].is_glob /\ g \notin DOMAIN source_map
           /\ ~raw_items.imports[e].is_glob /\ e \in DOMAIN source_map

(* ------------------------------- modules ------------------------------- *)
ListsHolding(ri, item) ==
    {m \in DefinitionIds(ri) :
         \E k \in 1..Len(ri.modules[m].items) : ri.modules[m].items[k] = item}
InTopLevel(ri, item) == \E k \in 1..Len(ri.items) : ri.items[k] = item

NestedInlineModules == {q \in VisitedInlineModules : Len(q) >= 2}

(* C4: an inline module nested in an inline module yields two Definition    *)
(* entries; the inner id stands in the outer module's list only, never in   *)
(* the top-level list, and the outer slot is allocated before the inner.    *)
C4_NestedInlineModules ==
    Done =>
        \A q \in NestedInlineModules :
            LET p == SubSeq(q, 1, Len(q) - 1) IN
            /\ Cardinality(ModulesOf(raw_items, p)) = 1
            /\ Cardinality(ModulesOf(raw_items, q)) = 1
            /\ \A mo \in ModulesOf(raw_items, p) : \A mi \in ModulesOf(raw_items, q) :
                   /\ raw_items.modules[mo].variant = "Definition"
                   /\ raw_items.modules[mi].variant = "Definition"
                   /\ ListsHolding(raw_items, RawItem("Module", mi)) = {mo}
                   /\ ~InTopLevel(raw_items, RawItem("Module", mi))
                   /\ mo < mi

C4_Witness ==
    /\ Done
    /\ NestedInlineModules /= {}
    /\ Cardinality(DefinitionIds(raw_items)) >= 2

DeclarationStep ==
    /\ HasCurrent
    /\ Current.kind = "Module" /\ IsSome(Current.name)
    /\ Current.has_semi /\ ~IsSome(Current.item_list)

VisitedDeclarations ==
    {p \in VisitedPaths :
         LET n == NodeAt(source_file, p)
         IN n.kind = "Module" /\ IsSome(n.name) /\ n.has_semi /\ ~IsSome(n.item_list)}

(* C5: `mod name;` adds exactly one Module entry, a Declaration, appended   *)
(* to the current parent's list, and is not recursed into: the call stack   *)
(* does not grow, and no Declaration is ever the parent of a traversal.     *)
C5_DeclarationModule ==
    /\ [][DeclarationStep =>
            LET n == ArenaLen(raw_items.modules) IN
            /\ DOMAIN raw_items'.modules = DOMAIN raw_items.modules \cup {n}
            /\ raw_items'.modules[n]
                   = [variant |-> "Declaration", name |-> AsName(Unwrap(Current.name)),
                      ast_id |-> AstId(source_file, CurrentPath)]
            /\ ItemsOf(raw_items', Top.current_module)
                   = Append(ItemsOf(raw_items, Top.current_module), RawItem("Module", n))
            /\ raw_items'.imports = raw_items.imports
            /\ raw_items'.defs = raw_items.defs
            /\ raw_items'.macros = raw_items.macros
            /\ stack' = Advance
       ]_vars
    /\ [](\A i \in 1..Len(stack) :
              IsSome(stack[i].current_module) =>
                  raw_items.modules[Unwrap(stack[i].current_module)].variant = "Definition")
    /\ [](Done =>
              \A p \in VisitedDeclarations :
                  /\ Cardinality(ModulesOf(raw_items, p)) = 1
                  /\ \A m \in ModulesOf(raw_items, p) :
                         raw_items.modules[m].variant = "Declaration")

\* a finished run over a file with `mod a;` inside an inline module
C5_Witness ==
    /\ Done
    /\ \E p \in VisitedDeclarations :
           /\ Len(p) >= 2
           /\ \E m \in ModulesOf(raw_items, p) :
                  ListsHolding(raw_items, RawItem("Module", m)) /= {}

(* ------------------------- malformed constructs ------------------------ *)
MalformedStep ==
    /\ HasCurrent
    /\ \/ /\ Current.kind = "Module"
          /\ ~Current.has_semi /\ ~IsSome(Current.item_list)
       \/ Current.kind \in DefNodeKinds /\ ~IsSome(Current.name)
       \/ Current.kind = "MacroCall" /\ ~IsSome(Current.path)

\* the steps of a running collector
CollectorStep ==
    \/ AddMacro
    \/ AddItem
    \/ AddModule
    \/ AddModuleReturn
    \/ AddUseItem
    \/ AddExternCrateItem
    \/ QueryReturn

\* the number of steps a run still owes: one per construct left to visit, one
\* more per inline module for the return from its item list, one per pending
\* invocation of process_module
RECURSIVE StepsOfBody(_, _)
StepsOfBody(body, i) ==
    IF i > Len(body) THEN 0
    ELSE 1 + (IF InlineModule(body[i]) THEN StepsOfBody(Unwrap(body[i].item_list), 1) + 1
              ELSE 0)
           + StepsOfBody(body, i + 1)

RECURSIVE StepsOfFrames(_)
StepsOfFrames(d) ==
    IF d = 0 THEN 0
    ELSE 1 + StepsOfBody(ItemsWithMacros(source_file, stack[d].body),
                         IF d = Len(stack) THEN stack[d].next ELSE stack[d].next + 1)
           + StepsOfFrames(d - 1)
Remaining == StepsOfFrames(Len(stack))

(* C6: a module with neither item list nor `;`, a definition without a      *)
(* name and a macro call without a callee path leave every arena, every     *)
(* item list and the source map as they were; the collector does not fail   *)
(* and goes on with the next construct, and the run completes: a running    *)
(* collector can always step, and each step leaves one step less to do.     *)
C6_MalformedConstructsContributeNothing ==
    /\ [][MalformedStep =>
            /\ raw_items' = raw_items
            /\ source_map' = source_map
            /\ pc' = "running"
            /\ stack' = Advance
       ]_vars
    /\ [](pc = "running" => ENABLED CollectorStep)
    /\ [][pc = "running" => (pc' /= "panicked" /\ Remaining' = Remaining - 1)]_vars
    /\ [](Done <=> (pc /= "idle" /\ Remaining = 0))

\* a finished run that met a malformed construct and recorded a later one
C6_Witness ==
    /\ Done
    /\ \E i \in 1..Len(source_file) :
           /\ \/ /\ source_file[i].kind = "Module" /\ IsSome(source_file[i].name)
                 /\ ~source_file[i].has_semi /\ ~IsSome(source_file[i].item_list)
              \/ source_file[i].kind \in DefNodeKinds /\ ~IsSome(source_file[i].name)
              \/ source_file[i].kind = "MacroCall" /\ ~IsSome(source_file[i].path)
           /\ i < Len(source_file)
    /\ Len(raw_items.items) = 1

(* ------------------------------ determinism ---------------------------- *)
(* C8: evaluating a query again on the same file yields an equal value      *)
(* (equal arenas, equal item lists, equal source map), and the value of     *)
(* raw_items is component .0 of the value of raw_items_with_source_map.     *)
C8_QueriesAreDeterministic ==
    \A r1, r2 \in results :
        /\ r1.query = r2.query => r1.value = r2.value
        /\ (r1.query = "raw_items" /\ r2.query = "raw_items_with_source_map")
               => r1.value = r2.value[1]

\* both queries have returned and the collector, run once more on the same
\* file, is through: it has rebuilt every row and map entry of the first run
C8_Witness ==
    /\ Running /\ ~HasCurrent /\ Len(stack) = 1
    /\ \E r1, r2 \in results :
           /\ r1.query = "raw_items"
           /\ r2.query = "raw_items_with_source_map"
           /\ r2.value = <<raw_items, source_map>>
    /\ DOMAIN raw_items.imports /= {}
    /\ DOMAIN source_map /= {}
    /\ DOMAIN raw_items.modules /= {}

(* --------------------------------- ids --------------------------------- *)
ArenaOf(ri, tag) ==
    CASE tag = "Module" -> ri.modules
      [] tag = "Import" -> ri.imports
      [] tag = "Def" -> ri.defs
      [] tag = "Macro" -> ri.macros
Tags == {"Module", "Import", "Def", "Macro"}

\* the places of all item lists: <<-1, k>> in the top-level list, <<m, k>> in
\* the list of Definition m
Places(ri) ==
    {<<-1, k>> : k \in 1..Len(ri.items)}
    \cup UNION {{<<m, k>> : k \in 1..Len(ri.modules[m].items)} : m \in DefinitionIds(ri)}
ItemAt(ri, place) ==
    IF place[1] = -1 THEN ri.items[place[2]] ELSE ri.modules[place[1]].items[place[2]]

(* C9: in the result of a run the ids of each arena are 0..n-1, every id    *)
(* in an item list is an id of the matching arena, and every allocated row  *)
(* is referenced exactly once over all item lists together.                 *)
C9_IdsDenseValidAndReferencedOnce ==
    Done =>
        /\ \A tag \in Tags :
               DOMAIN ArenaOf(raw_items, tag) = 0..(ArenaLen(ArenaOf(raw_items, tag)) - 1)
        /\ \A pl \in Places(raw_items) :
               /\ ItemAt(raw_items, pl).tag \in Tags
               /\ ItemAt(raw_items, pl).id
                      \in DOMAIN ArenaOf(raw_items, ItemAt(raw_items, pl).tag)
        /\ \A tag \in Tags : \A id \in DOMAIN ArenaOf(raw_items, tag) :
               Cardinality({pl \in Places(raw_items) :
                                ItemAt(raw_items, pl) = RawItem(tag, id)}) = 1

\* a finished run with rows of three arenas, some of them inside a module
C9_Witness ==
    /\ Done
    /\ Cardinality({tag \in Tags : DOMAIN ArenaOf(raw_items, tag) /= {}}) >= 3
    /\ \E m \in DefinitionIds(raw_items) : raw_items.modules[m].items /= <<>>

====
